---- MODULE Spec2Model ----
(***************************************************************************)
(* PHP bindings for the UmaDB event store (src/src/lib.rs).                *)
(*                                                                         *)
(* The binding converts PHP value objects (Event, QueryItem, Query,        *)
(* AppendCondition) to the store's types, calls the store client and       *)
(* converts the answers back.  The store itself is a collaborator: its     *)
(* behaviour is modelled from the specification (the Store_ definitions).  *)
(*                                                                         *)
(* Encodings: Option<T> is a sequence of length 0 (None) or 1 (Some).      *)
(* A String that the code parses (the uuid) is a sequence of one-character *)
(* strings; strings the code only compares are TLA+ strings.  A parsed     *)
(* Uuid is its 32 hexadecimal digits, each 0..15.  Positions are 1-based   *)
(* indexes of the store's log.                                              *)
(***************************************************************************)
EXTENDS Integers, Sequences, FiniteSets, TLC

VARIABLES connected, log, origin, rd, observed, result

vars == <<connected, log, origin, rd, observed, result>>

None == <<>>
Some(x) == <<x>>
IsSome(o) == Len(o) = 1

\* Option::unwrap_or
unwrap_or(o, d) == IF IsSome(o) THEN o[1] ELSE d

RECURSIVE SeqMap(_, _)
SeqMap(F(_), s) == IF s = <<>> THEN <<>> ELSE <<F(s[1])>> \o SeqMap(F, Tail(s))

Range(s) == {s[i] : i \in 1..Len(s)}

(***************************************************************************)
(* Uuid::parse_str and Uuid's Display, as lib.rs uses them.                *)
(***************************************************************************)
HexLower == <<"0","1","2","3","4","5","6","7","8","9","a","b","c","d","e","f">>
HexUpper == <<"0","1","2","3","4","5","6","7","8","9","A","B","C","D","E","F">>

\* value of one hexadecimal digit of either case, -1 for any other character
HexVal(c) ==
    IF \E i \in 1..16 : HexLower[i] = c
    THEN (CHOOSE i \in 1..16 : HexLower[i] = c) - 1
    ELSE IF \E i \in 1..16 : HexUpper[i] = c
         THEN (CHOOSE i \in 1..16 : HexUpper[i] = c) - 1
         ELSE -1

UuidErr == [ok |-> FALSE, value |-> <<>>]

\* 32 hexadecimal digits
parse_simple(s) ==
    IF \A i \in 1..Len(s) : HexVal(s[i]) >= 0
    THEN [ok |-> TRUE, value |-> [i \in 1..Len(s) |-> HexVal(s[i])]]
    ELSE UuidErr

HyphenAt == {9, 14, 19, 24}

\* the place in the hyphenated form of the j-th hexadecimal digit
DigitAt(j) == j + Cardinality({h \in {8, 12, 16, 20} : j > h})

\* 8-4-4-4-12 hexadecimal digits separated by hyphens (36 characters)
parse_hyphenated(s) ==
    IF \A i \in HyphenAt : s[i] = "-"
    THEN parse_simple([j \in 1..32 |-> s[DigitAt(j)]])
    ELSE UuidErr

UrnPrefix == <<"u","r","n",":","u","u","i","d",":">>

\* Uuid::parse_str: the simple, hyphenated, braced and urn forms, hex digits of either case
Uuid_parse_str(s) ==
    IF Len(s) = 32 THEN parse_simple(s)
    ELSE IF Len(s) = 36 THEN parse_hyphenated(s)
    ELSE IF Len(s) = 38 /\ s[1] = "{" /\ s[38] = "}" THEN parse_hyphenated(SubSeq(s, 2, 37))
    ELSE IF Len(s) = 45 /\ SubSeq(s, 1, 9) = UrnPrefix THEN parse_hyphenated(SubSeq(s, 10, 45))
    ELSE UuidErr

\* the hyphenated form of a Uuid written with the given digits
Hyphenated(u, digits) ==
    [i \in 1..36 |->
        IF i \in HyphenAt THEN "-"
        ELSE digits[u[i - Cardinality({h \in HyphenAt : h < i})] + 1]]

\* Uuid::to_string: the hyphenated form in lower case
Uuid_to_string(u) == Hyphenated(u, HexLower)

(***************************************************************************)
(* Error handling                                                          *)
(***************************************************************************)
\* the variants of DCBError the code names, and one of those it does not
DCBErrorKinds == {"IntegrityError", "TransportError", "Corruption", "Io", "InternalError"}

\* the prefix of the message of the PhpException the error becomes
dcb_error_to_exception(err) ==
    CASE err = "IntegrityError" -> "UmaDB\\Exception\\IntegrityException"
      [] err = "TransportError" -> "UmaDB\\Exception\\TransportException"
      [] err = "Corruption"     -> "UmaDB\\Exception\\CorruptionException"
      [] err = "Io"             -> "UmaDB\\Exception\\IoException"
      [] OTHER                  -> "UmaDB\\Exception\\UmaDBException"

\* the prefix of the message of the PhpException of to_dcb_event
InvalidUuidException == "Invalid UUID"

(***************************************************************************)
(* Event, SequencedEvent                                                   *)
(***************************************************************************)
\* Event::__construct: data.into_bytes() keeps the bytes, tags default to empty
Event_construct(event_type, data, tags, uuid) ==
    [event_type |-> event_type, data |-> data, tags |-> unwrap_or(tags, <<>>), uuid |-> uuid]

\* a bug: the uuid is not checked, an unparsable one is sent as absent
to_dcb_event_unchecked(e) ==
    [ok |-> TRUE,
     value |-> [event_type |-> e.event_type, data |-> e.data, tags |-> e.tags,
                uuid |-> IF IsSome(e.uuid) /\ Uuid_parse_str(e.uuid[1]).ok
                         THEN Some(Uuid_parse_str(e.uuid[1]).value) ELSE None],
     exc |-> ""]

\* Event::to_dcb_event
to_dcb_event(e) ==
    IF IsSome(e.uuid) /\ ~Uuid_parse_str(e.uuid[1]).ok
    THEN [ok |-> FALSE, value |-> <<>>, exc |-> InvalidUuidException]
    ELSE [ok |-> TRUE,
          value |-> [event_type |-> e.event_type, data |-> e.data, tags |-> e.tags,
                     uuid |-> IF IsSome(e.uuid)
                              THEN Some(Uuid_parse_str(e.uuid[1]).value) ELSE None],
          exc |-> ""]

\* a bug: the uuid is rendered in upper case
SequencedEvent_from_upper(seq_event) ==
    [event |-> [event_type |-> seq_event.event.event_type,
                data |-> seq_event.event.data,
                tags |-> seq_event.event.tags,
                uuid |-> IF IsSome(seq_event.event.uuid)
                         THEN Some(Hyphenated(seq_event.event.uuid[1], HexUpper)) ELSE None],
     position |-> seq_event.position]

\* impl From<RustSequencedEvent> for SequencedEvent
SequencedEvent_from(seq_event) ==
    [event |-> [event_type |-> seq_event.event.event_type,
                data |-> seq_event.event.data,
                tags |-> seq_event.event.tags,
                uuid |-> IF IsSome(seq_event.event.uuid)
                         THEN Some(Uuid_to_string(seq_event.event.uuid[1])) ELSE None],
     position |-> seq_event.position]

(***************************************************************************)
(* QueryItem, Query, AppendCondition                                       *)
(***************************************************************************)
QueryItem_construct(types, tags) ==
    [types |-> unwrap_or(types, <<>>), tags |-> unwrap_or(tags, <<>>)]

Query_construct(items) == [items |-> unwrap_or(items, <<>>)]

AppendCondition_construct(fail_if_events_match, after) ==
    [fail_if_events_match |-> fail_if_events_match, after |-> after]

\* RustQueryItem::new() and its builder methods
RustQueryItem_new == [types |-> <<>>, tags |-> <<>>]
RustQueryItem_types(qi, types) == [qi EXCEPT !.types = types]
RustQueryItem_tags(qi, tags) == [qi EXCEPT !.tags = tags]

\* impl From<QueryItem> for RustQueryItem
RustQueryItem_from(item) ==
    LET q0 == RustQueryItem_new
        q1 == IF item.types # <<>> THEN RustQueryItem_types(q0, item.types) ELSE q0
        q2 == IF item.tags # <<>> THEN RustQueryItem_tags(q1, item.tags) ELSE q1
    IN  q2

RustQuery_new == [items |-> <<>>]
RustQuery_item(q, item) == [q EXCEPT !.items = Append(@, item)]

RECURSIVE RustQuery_fold(_, _)
RustQuery_fold(rust_query, items) ==
    IF items = <<>> THEN rust_query
    ELSE RustQuery_fold(RustQuery_item(rust_query, RustQueryItem_from(items[1])), Tail(items))

\* a bug: only the first item is converted
RustQuery_from_first(query) ==
    IF query.items = <<>> THEN RustQuery_new
    ELSE RustQuery_item(RustQuery_new, RustQueryItem_from(query.items[1]))

\* impl From<Query> for RustQuery
RustQuery_from(query) == RustQuery_fold(RustQuery_new, query.items)

\* a bug: the position constraint is dropped
RustAppendCondition_from_no_after(condition) ==
    [fail_if_events_match |-> RustQuery_from(condition.fail_if_events_match), after |-> None]

\* impl From<AppendCondition> for RustAppendCondition
RustAppendCondition_from(condition) ==
    LET c0 == [fail_if_events_match |-> RustQuery_from(condition.fail_if_events_match),
               after |-> None]
    IN  IF IsSome(condition.after) THEN [c0 EXCEPT !.after = Some(condition.after[1])] ELSE c0

(***************************************************************************)
(* The store (umadb_client / umadb_dcb), from the specification:           *)
(* an append-only log whose positions are 1, 2, ...                         *)
(***************************************************************************)
Store_matches_item(e, qi) ==
    /\ (qi.types = <<>> \/ e.event_type \in Range(qi.types))
    /\ Range(qi.tags) \subseteq Range(e.tags)

Store_matches(e, q) ==
    q.items = <<>> \/ \E i \in 1..Len(q.items) : Store_matches_item(e, q.items[i])

\* an absent query selects every event
Store_selects(e, oq) == IsSome(oq) => Store_matches(e, oq[1])

Store_head(l) == IF l = <<>> THEN None ELSE Some(Len(l))

\* some stored event after the condition's position matches the condition's query
Store_condition_fails(l, oc) ==
    /\ IsSome(oc)
    /\ \E p \in 1..Len(l) :
          /\ p > unwrap_or(oc[1].after, 0)
          /\ Store_matches(l[p], oc[1].fail_if_events_match)

\* the store's append: the whole batch or nothing
Store_append(l, events, oc) ==
    IF Store_condition_fails(l, oc)
    THEN [ok |-> FALSE, err |-> "IntegrityError", log |-> l, position |-> 0]
    ELSE [ok |-> TRUE, err |-> "", log |-> l \o events, position |-> Len(l) + Len(events)]

\* the position of the event the response of a read yields next, if any
Store_read_next(l, r) ==
    LET n == Len(r.events)
        last == IF n = 0 THEN 0 ELSE r.events[n].position
        live == r.subscribe /\ ~r.backwards
        hi == IF live THEN Len(l) ELSE r.snap
        cand == IF r.backwards
                THEN {p \in 1..hi : /\ (IsSome(r.start) => p <= r.start[1])
                                    /\ (n > 0 => p < last)
                                    /\ Store_selects(l[p], r.query)}
                ELSE {p \in 1..hi : /\ p >= unwrap_or(r.start, 0)
                                    /\ p > last
                                    /\ Store_selects(l[p], r.query)}
    IN  IF (IsSome(r.limit) /\ n >= r.limit[1]) \/ cand = {} THEN None
        ELSE IF r.backwards THEN Some(CHOOSE p \in cand : \A q \in cand : q <= p)
        ELSE Some(CHOOSE p \in cand : \A q \in cand : p <= q)

\* the response is exhausted: a subscription ends only at its limit
Store_read_ended(l, r) ==
    /\ Store_read_next(l, r) = None
    /\ \/ ~(r.subscribe /\ ~r.backwards)
       \/ (IsSome(r.limit) /\ Len(r.events) >= r.limit[1])

(***************************************************************************)
(* The values the caller passes                                            *)
(***************************************************************************)
MaxLog == 3
MaxBatch == 2

U1 == [i \in 1..32 |-> (7 * i + 3) % 16]
U2 == [i \in 1..32 |-> (5 * i + 1) % 16]

UuidLower == Hyphenated(U1, HexLower)
UuidUpper == Hyphenated(U2, HexUpper)
UuidBad   == <<"n","o","t","-","a","-","u","u","i","d">>

EventPool ==
    { Event_construct("A", <<120>>, Some(<<"t1">>), None),
      Event_construct("B", <<120>>, Some(<<"t1", "t2">>), Some(UuidLower)),
      Event_construct("A", <<>>, Some(<<"t2", "t1">>), Some(UuidUpper)),
      Event_construct("B", <<121>>, None, Some(UuidBad)) }

Batches == UNION {[1..n -> EventPool] : n \in 1..MaxBatch}

QA  == Query_construct(Some(<<QueryItem_construct(Some(<<"A">>), None)>>))
QT  == Query_construct(Some(<<QueryItem_construct(None, Some(<<"t1", "t2">>))>>))
QT2 == Query_construct(Some(<<QueryItem_construct(None, Some(<<"t2", "t1">>))>>))
QO  == Query_construct(Some(<<QueryItem_construct(Some(<<"A">>), Some(<<"t2">>)),
                              QueryItem_construct(Some(<<"B">>), Some(<<"t1">>))>>))
QO2 == Query_construct(Some(<<QueryItem_construct(Some(<<"B">>), Some(<<"t1">>)),
                              QueryItem_construct(Some(<<"A">>), Some(<<"t2">>))>>))

QueryPool == {Query_construct(None), QA, QT, QT2, QO, QO2}

Conditions ==
    {None} \cup
    {Some(AppendCondition_construct(q, a)) :
        q \in {QA, QT, QO}, a \in {None, Some(0), Some(1), Some(2)}}

\* a call the store or the transport fails leaves the same state whatever it carries
FaultedBatches == {b \in Batches : Len(b) = 1}

OptBool == {None, Some(TRUE), Some(FALSE)}

ReadArgs ==
    [query : {None, Some(QT2), Some(QO)},
     start : {None, Some(0), Some(2)},
     backwards : OptBool,
     limit : {None, Some(1)},
     subscribe : {None, Some(TRUE)}]

\* what the store or the transport may report instead of serving a call; a call that
\* fails this way writes nothing
Faults == DCBErrorKinds \ {"IntegrityError"}

(***************************************************************************)
(* State                                                                   *)
(***************************************************************************)
NoArgs == [query |-> None, start |-> None, backwards |-> None, limit |-> None,
           subscribe |-> None]

RdIdle == [pc |-> "idle", args |-> NoArgs, query |-> None, start |-> None,
           backwards |-> FALSE, limit |-> None, subscribe |-> FALSE, snap |-> 0,
           events |-> <<>>]

NoResult == [op |-> "none", returned |-> FALSE, ok |-> FALSE, exc |-> "", kind |-> "",
             pos |-> None, sent |-> FALSE, batch |-> <<>>, cond |-> None, prevLen |-> 0,
             received |-> 0]

Init ==
    /\ connected = FALSE
    /\ log = <<>>
    /\ origin = <<>>
    /\ rd = RdIdle
    /\ observed = <<>>
    /\ result = NoResult

\* a failure of the store client, as the caller sees it
Failure(op, kind) ==
    [NoResult EXCEPT !.op = op, !.returned = TRUE, !.kind = kind,
                     !.exc = dcb_error_to_exception(kind)]

(***************************************************************************)
(* Client                                                                  *)
(***************************************************************************)
\* Client::__construct
Client_construct(fault) ==
    /\ ~connected /\ ~result.returned
    /\ connected' = (fault = "none")
    /\ result' = IF fault = "none"
                 THEN [NoResult EXCEPT !.op = "construct", !.returned = TRUE, !.ok = TRUE]
                 ELSE Failure("construct", fault)
    /\ observed' = <<>>
    /\ UNCHANGED <<log, origin, rd>>

\* Client::head
Client_head(fault) ==
    /\ connected /\ rd.pc = "idle" /\ ~result.returned
    /\ result' = IF fault = "none"
                 THEN [NoResult EXCEPT !.op = "head", !.returned = TRUE, !.ok = TRUE,
                                       !.pos = Store_head(log)]
                 ELSE Failure("head", fault)
    /\ observed' = <<>>
    /\ UNCHANGED <<connected, log, origin, rd>>

\* a bug: the events that do not convert are left out
collect_skipping(events) ==
    LET conv == [i \in 1..Len(events) |-> to_dcb_event(events[i])]
        good == SelectSeq(conv, LAMBDA c : c.ok)
    IN  [ok |-> TRUE, value |-> [i \in 1..Len(good) |-> good[i].value], exc |-> ""]

\* events.iter().map(|e| e.to_dcb_event()).collect(): the first failure, or every event
collect(events) ==
    LET conv == [i \in 1..Len(events) |-> to_dcb_event(events[i])]
        bad == {i \in 1..Len(events) : ~conv[i].ok}
    IN  IF bad # {}
        THEN [ok |-> FALSE, value |-> <<>>,
              exc |-> conv[CHOOSE i \in bad : \A j \in bad : i <= j].exc]
        ELSE [ok |-> TRUE, value |-> [i \in 1..Len(events) |-> conv[i].value], exc |-> ""]

\* collect, computed once for every batch the caller passes
Collected == [b \in Batches |-> collect(b)] @@ <<>>

\* the uuids of the batch are new to the store and to each other: what the store does
\* with a uuid it has seen (reject or deduplicate) is its own matter, and the batches
\* submitted here do not call on it
FreshUuids(l, events) ==
    /\ \A i \in 1..Len(events) : IsSome(events[i].uuid) =>
          /\ \A p \in 1..Len(l) : l[p].uuid # events[i].uuid
          /\ \A j \in 1..Len(events) : j # i => events[j].uuid # events[i].uuid

Origins(l, batch) ==
    [i \in 1..Len(batch) |-> [event |-> batch[i], prevHead |-> Len(l), size |-> Len(batch)]]

\* Client::append
Client_append(batch, cond, fault) ==
    /\ connected /\ rd.pc = "idle" /\ ~result.returned
    /\ LET rust_events == Collected[batch]
           rust_condition == IF IsSome(cond) THEN Some(RustAppendCondition_from(cond[1]))
                             ELSE None
           base == [NoResult EXCEPT !.op = "append", !.returned = TRUE, !.batch = batch,
                                    !.cond = cond, !.prevLen = Len(log)]
       IN  IF ~rust_events.ok
           THEN /\ fault = "none"
                /\ result' = [base EXCEPT !.exc = rust_events.exc]
                /\ UNCHANGED <<log, origin>>
           ELSE /\ FreshUuids(log, rust_events.value)
                /\ IF fault # "none"
                   THEN /\ result' = [Failure("append", fault) EXCEPT !.sent = TRUE]
                        /\ UNCHANGED <<log, origin>>
                   ELSE LET r == Store_append(log, rust_events.value, rust_condition)
                        IN  /\ Len(r.log) <= MaxLog
                            /\ log' = r.log
                            /\ origin' = IF r.ok THEN origin \o Origins(log, batch) ELSE origin
                            /\ result' =
                                 IF r.ok
                                 THEN [base EXCEPT !.sent = TRUE, !.ok = TRUE,
                                                   !.pos = Some(r.position)]
                                 ELSE [base EXCEPT !.sent = TRUE, !.kind = r.err,
                                                   !.exc = dcb_error_to_exception(r.err)]
    /\ observed' = <<>>
    /\ UNCHANGED <<connected, rd>>

\* a bug: a read without a direction runs backwards
read_backwards_default_true(backwards) == unwrap_or(backwards, TRUE)

\* backwards.unwrap_or(false)
read_backwards(backwards) == unwrap_or(backwards, FALSE)

\* subscribe.unwrap_or(false)
read_subscribe(subscribe) == unwrap_or(subscribe, FALSE)

\* Client::read, up to the response of the store client
Client_read_call(args, fault) ==
    /\ connected /\ rd.pc = "idle" /\ ~result.returned
    /\ observed' = <<>>
    /\ IF fault # "none"
       THEN /\ result' = Failure("read", fault)
            /\ rd' = rd
       ELSE /\ result' = [NoResult EXCEPT !.op = "read"]
            /\ rd' = [pc |-> "streaming", args |-> args,
                      query |-> IF IsSome(args.query) THEN Some(RustQuery_from(args.query[1]))
                                ELSE None,
                      start |-> args.start,
                      backwards |-> read_backwards(args.backwards),
                      limit |-> args.limit,
                      subscribe |-> read_subscribe(args.subscribe),
                      snap |-> Len(log),
                      events |-> <<>>]
    /\ UNCHANGED <<connected, log, origin>>

\* Client::read, one turn of the loop: the response yields an event
Client_read_next ==
    /\ rd.pc = "streaming"
    /\ IsSome(Store_read_next(log, rd))
    /\ LET p == Store_read_next(log, rd)[1]
       IN  rd' = [rd EXCEPT !.events =
                     Append(@, SequencedEvent_from([event |-> log[p], position |-> p]))]
    /\ UNCHANGED <<connected, log, origin, observed, result>>

\* Client::read, one turn of the loop: the response yields an error
Client_read_error(fault) ==
    /\ rd.pc = "streaming"
    /\ result' = [Failure("read", fault) EXCEPT !.received = Len(rd.events)]
    /\ observed' = <<>>
    /\ rd' = RdIdle
    /\ UNCHANGED <<connected, log, origin>>

\* Client::read, the response is exhausted: the collected events are returned
Client_read_return ==
    /\ rd.pc = "streaming"
    /\ Store_read_ended(log, rd)
    /\ result' = [NoResult EXCEPT !.op = "read", !.returned = TRUE, !.ok = TRUE,
                                  !.received = Len(rd.events)]
    /\ observed' = rd.events
    /\ rd' = RdIdle
    /\ UNCHANGED <<connected, log, origin>>

\* the caller has taken the value or the exception of its last call
Caller_continues ==
    /\ result.returned
    /\ result' = NoResult
    /\ observed' = <<>>
    /\ UNCHANGED <<connected, log, origin, rd>>

\* another writer appends, between the calls of this client or while it is blocked in read
Other_append(batch) ==
    /\ ~result.returned
    /\ Collected[batch].ok
    /\ Len(log) + Len(batch) <= MaxLog
    /\ FreshUuids(log, Collected[batch].value)
    /\ log' = Store_append(log, Collected[batch].value, None).log
    /\ origin' = origin \o Origins(log, batch)
    /\ UNCHANGED <<connected, rd, observed, result>>

Next ==
    \/ \E f \in Faults \cup {"none"} : Client_construct(f)
    \/ \E f \in Faults \cup {"none"} : Client_head(f)
    \/ \E b \in Batches, c \in Conditions : Client_append(b, c, "none")
    \/ \E b \in FaultedBatches, f \in Faults : Client_append(b, None, f)
    \/ \E a \in ReadArgs : Client_read_call(a, "none")
    \/ \E f \in Faults : Client_read_call(NoArgs, f)
    \/ Client_read_next
    \/ \E f \in Faults : Client_read_error(f)
    \/ Client_read_return
    \/ Caller_continues
    \/ \E b \in Batches : Other_append(b)

Spec == Init /\ [][Next]_vars

(***************************************************************************)
(* Properties                                                              *)
(***************************************************************************)
\* the matching rule as the specification words it, on the caller's Event and Query
Selected(e, q) ==
    \/ q.items = <<>>
    \/ \E i \in 1..Len(q.items) :
          /\ (q.items[i].types = <<>>
              \/ \E t \in 1..Len(q.items[i].types) : q.items[i].types[t] = e.event_type)
          /\ \A t \in 1..Len(q.items[i].tags) :
                \E u \in 1..Len(e.tags) : e.tags[u] = q.items[i].tags[t]

\* an append of this client has just returned
AppendReturns == result'.op = "append" /\ result'.returned /\ ~result.returned

\* a read of this client has just returned its events
ReadReturns == rd.pc = "streaming" /\ rd'.pc = "idle" /\ result'.ok

\* the store served the last append (neither it nor the transport reported a fault)
AppendServed == result.op = "append" /\ result.returned /\ result.sent /\ result.kind \notin Faults

\* the condition of the last append finds a stored event
ConditionHit ==
    /\ IsSome(result.cond)
    /\ \E p \in 1..result.prevLen :
          /\ (IsSome(result.cond[1].after) => p > result.cond[1].after[1])
          /\ Selected(origin[p].event, result.cond[1].fail_if_events_match)

\* C1: an append the store serves fails with an integrity error exactly when a stored
\* event after the condition's position (any stored event when the position is absent)
\* matches the condition's query; otherwise it succeeds and returns the previous head
\* plus the number of events appended.
C1_AppendCondition ==
    AppendServed =>
        /\ (result.exc = "UmaDB\\Exception\\IntegrityException") <=> ConditionHit
        /\ ~ConditionHit => /\ result.ok
                            /\ result.pos = Some(result.prevLen + Len(result.batch))

\* an append is refused for an event at position 2 although the event at position 1,
\* which the condition's position excludes, matches as well
C1_Witness ==
    /\ AppendServed /\ ~result.ok
    /\ result.cond = Some(AppendCondition_construct(QA, Some(1)))
    /\ Selected(origin[1].event, QA)
    /\ result.prevLen = 2

\* C2: an append is all or nothing: when it succeeds the log grows by exactly the batch,
\* in the submitted order, and the new head is returned; when it fails the log is what
\* it was; and a read holds no event of a batch that is not stored as a whole.
C2_AllOrNothing ==
    /\ [][AppendReturns =>
            IF result'.ok
            THEN /\ Len(log') = Len(log) + Len(result'.batch)
                 /\ SubSeq(log', 1, Len(log)) = log
                 /\ \A i \in 1..Len(result'.batch) :
                       /\ log'[Len(log) + i].event_type = result'.batch[i].event_type
                       /\ log'[Len(log) + i].data = result'.batch[i].data
                       /\ log'[Len(log) + i].tags = result'.batch[i].tags
                 /\ result'.pos = Some(Len(log'))
                 /\ Store_head(log') = result'.pos
            ELSE /\ log' = log
                 /\ Store_head(log') = Store_head(log)]_vars
    /\ [](\A i \in 1..Len(rd.events) :
             LET o == origin[rd.events[i].position]
             IN  o.prevHead + o.size <= Len(log))

\* a batch of two events was appended behind an event already stored
C2_Witness ==
    /\ result.op = "append" /\ result.ok
    /\ Len(result.batch) = 2 /\ result.prevLen = 1 /\ Len(log) = 3

\* the same query up to the order of its items and of the types and tags of an item
SameUpToOrder(q1, q2) ==
    {[types |-> Range(i.types), tags |-> Range(i.tags)] : i \in Range(q1.items)}
      = {[types |-> Range(i.types), tags |-> Range(i.tags)] : i \in Range(q2.items)}

\* the pairs of queries of the pool that differ in order only
Reordered == {pair \in QueryPool \X QueryPool : pair[1] # pair[2] /\ SameUpToOrder(pair[1], pair[2])}

\* the store's query for every query of the pool
Converted == [q \in QueryPool |-> RustQuery_from(q)] @@ <<>>

\* the positions a read has passed over
Passed(r) ==
    IF r.events = <<>> THEN {}
    ELSE LET last == r.events[Len(r.events)].position
         IN  IF read_backwards(r.args.backwards)
             THEN {p \in last..Len(log) : /\ p <= r.snap
                                          /\ IsSome(r.args.start) => p <= r.args.start[1]}
             ELSE {p \in 1..last : IsSome(r.args.start) => p >= r.args.start[1]}

\* C3: the store selects for the converted query exactly the events the matching rule
\* selects for the caller's query, whatever the order of items and tags: in a read
\* (every event received is selected and no selected event is passed over) and in the
\* evaluation of an append condition.
C3_QueryMatching ==
    /\ \A q \in QueryPool : \A p \in 1..Len(log) :
          Store_matches(log[p], Converted[q]) <=> Selected(origin[p].event, q)
    /\ \A pair \in Reordered : \A p \in 1..Len(log) :
          Store_matches(log[p], Converted[pair[1]]) <=> Store_matches(log[p], Converted[pair[2]])
    /\ rd.pc = "streaming" =>
          {rd.events[i].position : i \in 1..Len(rd.events)}
            = {p \in Passed(rd) : IsSome(rd.args.query) => Selected(origin[p].event, rd.args.query[1])}
    /\ AppendServed /\ IsSome(result.cond) =>
          (~result.ok <=> \E p \in 1..result.prevLen :
                             /\ p > unwrap_or(result.cond[1].after, 0)
                             /\ Selected(origin[p].event, result.cond[1].fail_if_events_match))

\* a read with a query of two items has passed over an event that no item selects and
\* received one that only the second item selects
C3_Witness ==
    /\ rd.pc = "streaming" /\ rd.args.query = Some(QO)
    /\ \E i \in 1..Len(rd.events) :
          /\ rd.events[i].event.event_type = "B"
          /\ \E p \in Passed(rd) : ~Selected(origin[p].event, QO)

\* C4: the events a read returns all match its query; forwards (backwards false or
\* absent) their positions increase strictly and are at or above start; backwards they
\* decrease strictly and are at or below start; so no position appears twice.
C4_ReadOrder ==
    [][ReadReturns =>
         LET a == rd.args
             ev == observed'
         IN  /\ \A i \in 1..Len(ev) :
                   IsSome(a.query) => Selected(origin[ev[i].position].event, a.query[1])
             /\ IF a.backwards = Some(TRUE)
                THEN /\ \A i \in 1..(Len(ev) - 1) : ev[i].position > ev[i + 1].position
                     /\ \A i \in 1..Len(ev) : IsSome(a.start) => ev[i].position <= a.start[1]
                ELSE /\ \A i \in 1..(Len(ev) - 1) : ev[i].position < ev[i + 1].position
                     /\ \A i \in 1..Len(ev) : IsSome(a.start) => ev[i].position >= a.start[1]
             /\ \A i \in 1..Len(ev), j \in 1..Len(ev) :
                   i # j => ev[i].position # ev[j].position]_vars

\* a read has returned two events, the later one first
C4_Witness ==
    /\ result.op = "read" /\ result.ok
    /\ Len(observed) >= 2
    /\ observed[1].position > observed[2].position

\* C5: a read is lazy: once a second event has been received the caller has seen the
\* first, and a subscription that waits for new events has handed over all it received.
C5_LazyRead ==
    /\ (rd.pc = "streaming" /\ Len(rd.events) >= 2) => observed # <<>>
    /\ (rd.pc = "streaming" /\ rd.subscribe /\ ~rd.backwards /\ rd.events # <<>>
          /\ Store_read_next(log, rd) = None /\ ~Store_read_ended(log, rd))
       => observed = rd.events

\* C6: when a read fails after k events were received, the caller has those k events.
C6_ErrorKeepsEvents ==
    (result.op = "read" /\ result.returned /\ ~result.ok) => Len(observed) = result.received

\* C7: every Event passed to append carries no uuid or one that parses.
C7_UuidValidAtConstruction ==
    \A i \in 1..Len(result.batch) :
        IsSome(result.batch[i].uuid) => Uuid_parse_str(result.batch[i].uuid[1]).ok

\* a uuid in its canonical form: hyphenated, the digits in lower case
IsCanonical(s) ==
    /\ Len(s) = 36
    /\ \A i \in 1..36 : IF i \in HyphenAt THEN s[i] = "-" ELSE s[i] \in Range(HexLower)

\* C8 as stated: an event read back equals the event appended, field for field, and its
\* position is above the head before the append.
C8_RoundTripExact ==
    \A i \in 1..Len(observed) :
        /\ observed[i].event = origin[observed[i].position].event
        /\ observed[i].position > origin[observed[i].position].prevHead

\* C8, amended: an event read back has the event_type, data and tags (in order) of the
\* event appended and a position above the head before the append; its uuid is absent
\* when that was absent and otherwise the canonical form (hyphenated, lower case) of the
\* same identifier, equal to the original string when that was canonical.
C8_RoundTrip ==
    \A i \in 1..Len(observed) :
        LET got == observed[i].event
            sent == origin[observed[i].position].event
        IN  /\ got.event_type = sent.event_type
            /\ got.data = sent.data
            /\ got.tags = sent.tags
            /\ IsSome(got.uuid) <=> IsSome(sent.uuid)
            /\ IsSome(sent.uuid) =>
                  /\ IsCanonical(got.uuid[1])
                  /\ Uuid_parse_str(got.uuid[1]) = Uuid_parse_str(sent.uuid[1])
                  /\ IsCanonical(sent.uuid[1]) => got.uuid = sent.uuid
            /\ observed[i].position > origin[observed[i].position].prevHead

\* an event appended with an upper-case uuid was read back
C8_Witness ==
    \E i \in 1..Len(observed) :
        /\ origin[observed[i].position].event.uuid = Some(UuidUpper)
        /\ origin[observed[i].position].prevHead >= 1

\* the category a failure shows to the caller, "" when it shows none of the taxonomy
Category(exc) ==
    CASE exc = "UmaDB\\Exception\\IntegrityException"  -> "IntegrityError"
      [] exc = "UmaDB\\Exception\\TransportException"  -> "TransportError"
      [] exc = "UmaDB\\Exception\\CorruptionException" -> "CorruptionError"
      [] exc = "UmaDB\\Exception\\IoException"         -> "I/O error"
      [] exc = "Invalid UUID"                          -> "Validation error"
      [] OTHER                                         -> ""

Failed == result.returned /\ ~result.ok

KindsNamed ==
    /\ result.kind = "IntegrityError" => Category(result.exc) = "IntegrityError"
    /\ result.kind = "TransportError" => Category(result.exc) = "TransportError"
    /\ result.kind = "Corruption" => Category(result.exc) = "CorruptionError"
    /\ result.kind = "Io" => Category(result.exc) = "I/O error"
    /\ result.kind = "" => Category(result.exc) = "Validation error"

\* C9: every failure that reaches the caller is in one of the five categories of the
\* taxonomy, each kind the store reports in its own.
C9_ClosedTaxonomy ==
    Failed => /\ Category(result.exc) # ""
              /\ KindsNamed

\* C10: an append whose batch holds an event with an invalid uuid fails with the
\* validation failure, the store's append is not invoked, and the log and the head
\* are what they were.
C10_InvalidUuidNotSent ==
    [][(AppendReturns /\ \E i \in 1..Len(result'.batch) :
            /\ IsSome(result'.batch[i].uuid)
            /\ ~Uuid_parse_str(result'.batch[i].uuid[1]).ok)
        => /\ ~result'.ok
           /\ result'.exc = "Invalid UUID"
           /\ ~result'.sent
           /\ log' = log
           /\ Store_head(log') = Store_head(log)]_vars

\* an append of a valid event followed by one with an invalid uuid has failed
C10_Witness ==
    /\ result.op = "append" /\ result.returned /\ ~result.ok
    /\ Len(result.batch) = 2
    /\ ~IsSome(result.batch[1].uuid)
    /\ result.batch[2].uuid = Some(UuidBad)
    /\ Len(log) >= 1

====
